---- MODULE Spec2Model ----
(***************************************************************************)
(* Model of the ComfyUI gateway of src/main.py: the two endpoints          *)
(* /txt2img and /img2img, each a coroutine that runs from one await to the *)
(* next, the workflow builder, the upload validation, the bounded poll of  *)
(* /history/{prompt_id} and the fetch from /view.                          *)
(*                                                                         *)
(* Text.  A Python str is a sequence of tokens (<<>> is the empty str).    *)
(* File names and content types are spelled character by character, since  *)
(* the code inspects their characters; prompts, messages and identifiers   *)
(* are spelled in larger tokens, since the code only concatenates and      *)
(* compares them.                                                          *)
(*                                                                         *)
(* JSON.  A dict is the sequence of its entries [k, v] in insertion order  *)
(* (Python dicts and json.loads keep that order).  A value is              *)
(*   [str |-> s]   [num |-> n]   [lst |-> <<values>>]   [obj |-> dict]     *)
(* in a JSON text or a decoded response, and on the heap a nested dict is  *)
(* held by reference, [ref |-> address].                                   *)
(***************************************************************************)
EXTENDS Integers, Sequences, FiniteSets, TLC

VARIABLES
    file,    \* the JSON text of flux_canny_model_v1.json, on disk
    heap,    \* the dicts of the process: the template, and each request's graph
    pc,      \* per request: the await it is suspended at
    args,    \* per request: the endpoint called and its arguments
    loc,     \* per request: the local names of the endpoint coroutine
    calls,   \* per request: the backend calls and the sleeps it has issued, in order
    resp,    \* per request: the backend response it received last
    reply    \* per request: the HTTP response sent to the caller

vars == <<file, heap, pc, args, loc, calls, resp, reply>>

----------------------------------------------------------------------------
(* Python values *)

None == [none |-> TRUE]

Str(s) == [str |-> s]

IsNone(v) == "none" \in DOMAIN v

IsStr(v) == "str" \in DOMAIN v

IsObj(v) == "obj" \in DOMAIN v

IsRef(v) == "ref" \in DOMAIN v

(* bool(v) of an Optional[str]: None and "" are both false *)
Truthy(v) == IsStr(v) /\ v.str # <<>>

RECURSIVE Concat(_)
Concat(ss) == IF ss = <<>> THEN <<>> ELSE Head(ss) \o Concat(Tail(ss))

RECURSIVE SumSeq(_)
SumSeq(ns) == IF ns = <<>> THEN 0 ELSE Head(ns) + SumSeq(Tail(ns))

(* needle in hay, for Python strs *)
Contains(hay, needle) ==
    \E i \in 0..(Len(hay) - Len(needle)) :
        SubSeq(hay, i + 1, i + Len(needle)) = needle

StartsWith(s, p) == Len(s) >= Len(p) /\ SubSeq(s, 1, Len(p)) = p

----------------------------------------------------------------------------
(* dicts *)

Entry(key, val) == [k |-> key, v |-> val]

HasKey(d, key) == \E i \in 1..Len(d) : d[i].k = key

(* d[key]; the callers guard with HasKey where Python would raise KeyError *)
Lookup(d, key) == d[CHOOSE i \in 1..Len(d) : d[i].k = key].v

(* d.get(key, default) *)
Get(d, key, default) == IF HasKey(d, key) THEN Lookup(d, key) ELSE default

(* d[key] = val: an existing key keeps its place, a new key goes last *)
Store(d, key, val) ==
    IF HasKey(d, key)
    THEN [i \in 1..Len(d) |-> IF d[i].k = key THEN Entry(key, val) ELSE d[i]]
    ELSE Append(d, Entry(key, val))

----------------------------------------------------------------------------
(* The heap: cell a holds [d |-> dict] or is free. *)

Free == [free |-> TRUE]

IsFree(c) == "free" \in DOMAIN c

Cell(d) == [d |-> d]

(* json.dumps(obj): the JSON text of the dict at address a, references     *)
(* followed and written out in place *)
RECURSIVE json_dumps(_, _)
json_dumps(h, a) ==
    LET d == h[a].d
    IN  [i \in 1..Len(d) |->
            Entry(d[i].k, IF IsRef(d[i].v)
                          THEN [obj |-> json_dumps(h, d[i].v.ref)]
                          ELSE d[i].v)]

(* number of dicts a JSON text decodes to *)
RECURSIVE Size(_)
Size(t) ==
    1 + SumSeq([i \in 1..Len(t) |-> IF IsObj(t[i].v) THEN Size(t[i].v.obj) ELSE 0])

(* json.loads(text): the fresh cells of the decoded dict, the outermost    *)
(* at address base and every nested dict after it, in document order *)
RECURSIVE json_loads(_, _)
json_loads(t, base) ==
    LET at(i) == base + 1 + SumSeq([j \in 1..(i - 1) |->
                     IF IsObj(t[j].v) THEN Size(t[j].v.obj) ELSE 0])
    IN  <<Cell([i \in 1..Len(t) |->
                  Entry(t[i].k, IF IsObj(t[i].v) THEN [ref |-> at(i)] ELSE t[i].v)])>>
        \o Concat([i \in 1..Len(t) |->
                  IF IsObj(t[i].v) THEN json_loads(t[i].v.obj, at(i)) ELSE <<>>])

(* reachable cells, and the collection of the others: a dict that no name *)
(* refers to any more is freed, and the heap's free tail is given back *)
Refs(h, a) ==
    {h[a].d[i].v.ref : i \in {j \in 1..Len(h[a].d) : IsRef(h[a].d[j].v)}}

RECURSIVE Reach(_, _)
Reach(h, S) ==
    LET T == S \cup UNION {Refs(h, a) : a \in S}
    IN  IF T = S THEN S ELSE Reach(h, T)

RECURSIVE Trim(_)
Trim(h) ==
    IF h # <<>> /\ IsFree(h[Len(h)]) THEN Trim(SubSeq(h, 1, Len(h) - 1)) ELSE h

Collect(h, roots) ==
    LET live == Reach(h, roots)
    IN  Trim([a \in 1..Len(h) |-> IF a \in live THEN h[a] ELSE Free])

(* the allocator: n cells in a row, at the lowest address where n cells   *)
(* are free or past the end of the heap *)
Alloc(h, n) ==
    CHOOSE a \in 1..(Len(h) + 1) :
        /\ \A i \in a..(a + n - 1) : i > Len(h) \/ IsFree(h[i])
        /\ \A b \in 1..(a - 1) : \E i \in b..(b + n - 1) : i <= Len(h) /\ ~IsFree(h[i])

(* the heap with the cells written from address a on *)
Place(h, a, cells) ==
    [i \in 1..(IF Len(h) > a + Len(cells) - 1 THEN Len(h) ELSE a + Len(cells) - 1) |->
        IF i >= a /\ i < a + Len(cells) THEN cells[i - a + 1] ELSE h[i]]

----------------------------------------------------------------------------
(* Configuration and the workflow template *)

(* the persona text, in two tokens: its first sentence and the rest *)
DEFAULT_SYSTEM_PROMPT ==
    <<"You are JADE-CAD v6, an expert AI jade-design engine",
      "please create a design that precisely matches the following user requirements:">>

K23 == <<"23">>

K17 == <<"17">>

K9 == <<"9">>

K3 == <<"3">>

Kinputs == <<"inputs">>

Ktext == <<"text">>

Kimage == <<"image">>

Kclass == <<"class_type">>

(* The graphs flux_canny_model_v1.json may hold: the text-input node "23", *)
(* the image-input node "17" and the SaveImage node "9", with other nodes  *)
(* and other fields beside them. *)
TemplateFiles ==
    { << Entry(K17, [obj |-> << Entry(Kinputs, [obj |->
                                   << Entry(Kimage, Str(<<"example.png">>)),
                                      Entry(<<"upload">>, Str(<<"image">>)) >>]),
                                Entry(Kclass, Str(<<"LoadImage">>)) >>]),
         Entry(K23, [obj |-> << Entry(Kinputs, [obj |->
                                   << Entry(Ktext, Str(<<>>)),
                                      Entry(<<"clip">>, [lst |-> <<Str(<<"11">>), [num |-> 0]>>]) >>]),
                                Entry(Kclass, Str(<<"CLIPTextEncode">>)) >>]),
         Entry(K9,  [obj |-> << Entry(Kinputs, [obj |->
                                   << Entry(<<"filename_prefix">>, Str(<<"ComfyUI">>)) >>]),
                                Entry(Kclass, Str(<<"SaveImage">>)) >>]) >>,
      << Entry(K23, [obj |-> << Entry(Kclass, Str(<<"CLIPTextEncode">>)),
                                Entry(Kinputs, [obj |->
                                   << Entry(Ktext, Str(<<"a jade bangle">>)) >>]) >>]),
         Entry(K17, [obj |-> << Entry(Kclass, Str(<<"LoadImage">>)),
                                Entry(Kinputs, [obj |->
                                   << Entry(Kimage, Str(<<>>)) >>]) >>]) >> }

(* the module global: bound once, at import, to the dict json.load returns *)
WORKFLOW_TEMPLATE == 1

----------------------------------------------------------------------------
(* build_workflow *)

(* TemplateCopy as WORKFLOW_TEMPLATE.copy(): a new outer dict over the      *)
(* template's own node dicts *)
TemplateShallowCopy(h) ==
    LET base == Alloc(h, 1)
    IN  [heap |-> Place(h, base, <<h[WORKFLOW_TEMPLATE]>>), wf |-> base]

(* wf = json.loads(json.dumps(WORKFLOW_TEMPLATE)): a copy in fresh cells *)
TemplateCopy(h) ==
    LET text == json_dumps(h, WORKFLOW_TEMPLATE)
        base == Alloc(h, Size(text))
    IN  [heap |-> Place(h, base, json_loads(text, base)), wf |-> base]

(* CombinedPrompt, the persona always first and the override after it *)
CombinedPromptAfterDefault(prompt, system_prompt) ==
    IF Truthy(system_prompt)
    THEN DEFAULT_SYSTEM_PROMPT \o <<"\n", "\n">> \o system_prompt.str \o <<"\n", "\n">> \o prompt
    ELSE DEFAULT_SYSTEM_PROMPT \o <<"\n", "\n">> \o prompt

(* CombinedPrompt, the parts one line apart instead of a blank line *)
CombinedPromptOneNewline(prompt, system_prompt) ==
    IF Truthy(system_prompt)
    THEN system_prompt.str \o <<"\n">> \o prompt
    ELSE DEFAULT_SYSTEM_PROMPT \o <<"\n">> \o prompt

(* the combined prompt of the two branches on system_prompt *)
CombinedPrompt(prompt, system_prompt) ==
    IF Truthy(system_prompt)
    THEN system_prompt.str \o <<"\n", "\n">> \o prompt
    ELSE DEFAULT_SYSTEM_PROMPT \o <<"\n", "\n">> \o prompt

(* SetInput, the write going to the template's node instead of the copy's *)
SetInputInTemplate(h, wf, node, field, val) ==
    LET n  == Lookup(h[WORKFLOW_TEMPLATE].d, node).ref
        in == Lookup(h[n].d, Kinputs).ref
    IN  [h EXCEPT ![in] = Cell(Store(h[in].d, field, val))]

(* wf[node]["inputs"][field] = val *)
SetInput(h, wf, node, field, val) ==
    LET n  == Lookup(h[wf].d, node).ref
        in == Lookup(h[n].d, Kinputs).ref
    IN  [h EXCEPT ![in] = Cell(Store(h[in].d, field, val))]

build_workflow(h, prompt, image_filename, system_prompt) ==
    LET c  == TemplateCopy(h)
        h1 == SetInput(c.heap, c.wf, K23, Ktext,
                       Str(CombinedPrompt(prompt, system_prompt)))
        h2 == IF Truthy(image_filename)
              THEN SetInput(h1, c.wf, K17, Kimage, image_filename)
              ELSE h1
    IN  [heap |-> h2, wf |-> c.wf]

----------------------------------------------------------------------------
(* File names *)

UpperCase ==
    <<"A", "B", "C", "D", "E", "F", "G", "H", "I", "J", "K", "L", "M",
      "N", "O", "P", "Q", "R", "S", "T", "U", "V", "W", "X", "Y", "Z">>

LowerCase ==
    <<"a", "b", "c", "d", "e", "f", "g", "h", "i", "j", "k", "l", "m",
      "n", "o", "p", "q", "r", "s", "t", "u", "v", "w", "x", "y", "z">>

(* str.lower() *)
Lower(s) ==
    [i \in 1..Len(s) |->
        IF \E j \in 1..26 : UpperCase[j] = s[i]
        THEN LowerCase[CHOOSE j \in 1..26 : UpperCase[j] = s[i]]
        ELSE s[i]]

RECURSIVE Split(_, _)
Split(s, sep) ==
    IF \A i \in 1..Len(s) : s[i] # sep
    THEN <<s>>
    ELSE LET i == CHOOSE i \in 1..Len(s) :
                      s[i] = sep /\ \A j \in 1..(i - 1) : s[j] # sep
         IN  <<SubSeq(s, 1, i - 1)>> \o Split(SubSeq(s, i + 1, Len(s)), sep)

NamedPart(p) == p # <<>> /\ p # <<".">>

(* Path(filename).name: the last component, empty and "." components skipped *)
PathName(s) ==
    LET parts == SelectSeq(Split(s, "/"), NamedPart)
    IN  IF parts = <<>> THEN <<>> ELSE parts[Len(parts)]

(* Path(filename).suffix: from the last dot of the name, when that dot is  *)
(* neither its first nor its last character *)
PathSuffix(s) ==
    LET name == PathName(s)
        dots == {i \in 1..Len(name) : name[i] = "."}
        last == CHOOSE i \in dots : \A j \in dots : j <= i
    IN  IF dots # {} /\ 1 < last /\ last < Len(name)
        THEN SubSeq(name, last, Len(name))
        ELSE <<>>

allowed_extensions ==
    { <<".", "j", "p", "g">>, <<".", "j", "p", "e", "g">>, <<".", "p", "n", "g">>,
      <<".", "b", "m", "p">>, <<".", "t", "i", "f", "f">>, <<".", "w", "e", "b", "p">> }

----------------------------------------------------------------------------
(* HTTP: the responses to the caller, the calls to the backend *)

(* raise HTTPException(status, detail) *)
HTTPException(status, detail) == [status |-> status, detail |-> detail]

(* an exception no handler catches: the framework answers 500 *)
ServerError == [status |-> 500, detail |-> <<"Internal Server Error">>]

(* Response(content, media_type, headers) of a found image *)
ImageResponse(img_bytes, meta) ==
    [status      |-> 200,
     content     |-> img_bytes,
     media_type  |-> <<"image/png">>,
     disposition |-> <<"inline; filename=\"">> \o Lookup(meta, <<"filename">>).str \o <<"\"">>]

(* no response sent yet *)
Pending == [status |-> 0]

(* the fixed detail texts of the HTTPExceptions, in English *)
MsgNotImage == <<"the file must be an image">>

MsgNoExtension == <<"the file name must have an extension">>

MsgBadExtension == <<"unsupported file type: ">>

MsgUploadFailed == <<"image upload failed: ">>

MsgSubmitFailed == <<"ComfyUI submit failed: ">>

MsgTimeout == <<"ComfyUI timed out, no output image">>

MsgDownloadFailed == <<"image download failed: ">>

Kprompt_id == <<"prompt_id">>

Koutputs == <<"outputs">>

Kimages == <<"images">>

Kfilename == <<"filename">>

Ksubfolder == <<"subfolder">>

Ktype == <<"type">>

Kname == <<"name">>

----------------------------------------------------------------------------
(* upload_image_to_comfyui, up to its POST *)

(* ExtensionRejected, without .lower() *)
ExtensionRejectedCaseSensitive(filename) == PathSuffix(filename) \notin allowed_extensions

(* the extension test: TRUE when the 400 is raised *)
ExtensionRejected(filename) == Lower(PathSuffix(filename)) \notin allowed_extensions

(* UploadedName, the backend's name ignored *)
UploadedNameOfCaller(body, filename) == Str(filename)

(* result.get('name', filename) *)
UploadedName(body, filename) == Get(body, Kname, Str(filename))

----------------------------------------------------------------------------
(* wait_for_image_meta: one tick's reading of the status response *)

(* the default of the timeout parameter: the number of ticks (120 in the   *)
(* source, scaled down) *)
PollTimeout == 3

(* node_output.get("images", []) *)
NodeImages(node_output) == Get(node_output, Kimages, [lst |-> <<>>]).lst

(* PreferredImages, without the first loop: node "9" gets no preference *)
NoPreferredImages(outputs) == <<>>

(* the images the first loop runs over: those of node "9", if it is there *)
PreferredImages(outputs) ==
    IF HasKey(outputs, K9) THEN NodeImages(Lookup(outputs, K9).obj) ELSE <<>>

(* the images the second loop reaches first: those of the first node, in   *)
(* the order of the outputs mapping, that has any *)
FirstNodeImages(outputs) ==
    LET with == {i \in 1..Len(outputs) : NodeImages(outputs[i].v.obj) # <<>>}
        i0   == CHOOSE i \in with : \A j \in with : i <= j
    IN  IF with = {} THEN <<>> ELSE NodeImages(outputs[i0].v.obj)

(* the img the function returns on, if any: <<img>> or <<>> *)
FoundImage(outputs) ==
    IF PreferredImages(outputs) # <<>> THEN <<PreferredImages(outputs)[1].obj>>
    ELSE IF FirstNodeImages(outputs) # <<>> THEN <<FirstNodeImages(outputs)[1].obj>>
    ELSE <<>>

(* Descriptor, subfolder and type read as filename is: no defaults *)
DescriptorNoDefaults(img) ==
    << Entry(Kfilename, Lookup(img, Kfilename)),
       Entry(Ksubfolder, Get(img, Ksubfolder, None)),
       Entry(Ktype, Get(img, Ktype, None)) >>

(* the dict returned for img *)
Descriptor(img) ==
    << Entry(Kfilename, Lookup(img, Kfilename)),
       Entry(Ksubfolder, Get(img, Ksubfolder, Str(<<>>))),
       Entry(Ktype, Get(img, Ktype, Str(<<"output">>))) >>

(* TRUE when the tick goes to sleep and to the next tick: a status other   *)
(* than 200, a falsy body, a body without the handle, or no image *)
NotReady(r, prompt_id) ==
    \/ r.status # 200
    \/ r.json = <<>>
    \/ ~HasKey(r.json, prompt_id)
    \/ FoundImage(Get(Lookup(r.json, prompt_id).obj, Koutputs, [obj |-> <<>>]).obj) = <<>>

(* the outputs mapping the tick reads, for a response that is not NotReady *)
TickOutputs(r, prompt_id) ==
    Get(Lookup(r.json, prompt_id).obj, Koutputs, [obj |-> <<>>]).obj

(* Tick, returning as soon as the handle is in the body: the descriptor of *)
(* an image that is not there *)
TickEager(r, prompt_id) ==
    IF r.status # 200 \/ r.json = <<>> \/ ~HasKey(r.json, prompt_id)
    THEN [kind |-> "sleep"]
    ELSE IF FoundImage(TickOutputs(r, prompt_id)) = <<>>
    THEN [kind |-> "return", meta |-> Descriptor(<<Entry(Kfilename, Str(<<>>))>>)]
    ELSE LET img == FoundImage(TickOutputs(r, prompt_id))[1]
         IN  IF HasKey(img, Kfilename)
             THEN [kind |-> "return", meta |-> Descriptor(img)]
             ELSE [kind |-> "raise"]

(* Tick, with resp.raise_for_status() first: a status other than 200 ends  *)
(* the poll *)
TickRaiseForStatus(r, prompt_id) ==
    IF r.status # 200
    THEN [kind |-> "raise"]
    ELSE IF NotReady(r, prompt_id)
    THEN [kind |-> "sleep"]
    ELSE LET img == FoundImage(TickOutputs(r, prompt_id))[1]
         IN  IF HasKey(img, Kfilename)
             THEN [kind |-> "return", meta |-> Descriptor(img)]
             ELSE [kind |-> "raise"]

(* what one tick does with the status response: it sleeps, it returns the  *)
(* descriptor, or img["filename"] raises KeyError *)
Tick(r, prompt_id) ==
    IF NotReady(r, prompt_id)
    THEN [kind |-> "sleep"]
    ELSE LET img == FoundImage(TickOutputs(r, prompt_id))[1]
         IN  IF HasKey(img, Kfilename)
             THEN [kind |-> "return", meta |-> Descriptor(img)]
             ELSE [kind |-> "raise"]

(* MoreTicks, one tick too many *)
MoreTicksOffByOne(tick) == tick <= PollTimeout

(* for _ in range(timeout): TRUE when a tick follows `tick` finished ones *)
MoreTicks(tick) == tick < PollTimeout

----------------------------------------------------------------------------
(* BackendFailed, taking only the 5xx answers for failures *)
BackendFailedOn5xx(r) == r.status >= 500

(* if resp.status != 200, of the upload, the submission and the download *)
BackendFailed(r) == r.status # 200

(* BackendError, without the text of the backend's body *)
BackendErrorNoText(msg, r) == HTTPException(502, msg)

(* the HTTPException raised then: the message, and the text of the body *)
BackendError(msg, r) == HTTPException(502, msg \o r.text)

(* ViewParams, the subfolder left at its default *)
ViewParamsNoSubfolder(meta) ==
    << Entry(Kfilename, Lookup(meta, Kfilename)),
       Entry(Ksubfolder, Str(<<>>)),
       Entry(Ktype, Get(meta, Ktype, Str(<<"output">>))) >>

(* download_image_bytes: the query of its GET *)
ViewParams(meta) ==
    << Entry(Kfilename, Lookup(meta, Kfilename)),
       Entry(Ksubfolder, Get(meta, Ksubfolder, Str(<<>>))),
       Entry(Ktype, Get(meta, Ktype, Str(<<"output">>))) >>

----------------------------------------------------------------------------
(* The requests: pc's domain names the slots, one request at a time in each *)

NoArgs == [endpoint |-> "none"]

NoLocals ==
    [uploaded_filename |-> None, client_id |-> None, wf |-> 0,
     prompt_id |-> None, tick |-> 0, meta |-> None]

(* the graphs held by the requests other than r, and the template *)
Roots(r) == {WORKFLOW_TEMPLATE} \cup {loc[q].wf : q \in {x \in DOMAIN pc : x # r /\ loc[x].wf # 0}}

(* uuid.uuid4(): a token no request in flight holds *)
FreshUuids(U) == {u \in U.uuids : \A q \in DOMAIN pc : loc[q].client_id # Str(u)}

(* the end of a request: the response goes to the caller *)
Respond(r, response) ==
    /\ pc' = [pc EXCEPT ![r] = "done"]
    /\ reply' = [reply EXCEPT ![r] = response]

(* POST /prompt with json={"prompt": workflow, "client_id": client_id} *)
SubmitCall(h, wf, client_id) ==
    [op |-> "POST /prompt",
     json |-> << Entry(<<"prompt">>, [obj |-> json_dumps(h, wf)]),
                 Entry(<<"client_id">>, client_id) >>]

HistoryCall(prompt_id) == [op |-> "GET /history", prompt_id |-> prompt_id]

SleepCall == [op |-> "sleep", seconds |-> 1]

ViewCall(meta) == [op |-> "GET /view", params |-> ViewParams(meta)]

UploadCall(filename) ==
    [op |-> "POST /upload/image", filename |-> filename, content_type |-> <<"image/jpeg">>]

----------------------------------------------------------------------------
(* txt2img, to its POST /prompt *)
Txt2Img(r, U) ==
    /\ pc[r] = "idle"
    /\ \E prompt \in U.prompts, system_prompt \in U.system_prompts, u \in FreshUuids(U) :
          LET b == build_workflow(heap, prompt, None, system_prompt)
          IN  /\ args' = [args EXCEPT ![r] =
                    [endpoint |-> "txt2img", prompt |-> prompt, system_prompt |-> system_prompt]]
              /\ heap' = b.heap
              /\ loc' = [loc EXCEPT ![r] = [@ EXCEPT !.client_id = Str(u), !.wf = b.wf]]
              /\ calls' = [calls EXCEPT ![r] = Append(@, SubmitCall(b.heap, b.wf, Str(u)))]
              /\ pc' = [pc EXCEPT ![r] = "submit"]
    /\ UNCHANGED <<file, resp, reply>>

(* img2img, through its checks and those of upload_image_to_comfyui, to    *)
(* the POST /upload/image; the await of image.read() between the checks    *)
(* touches nothing but the request's own file *)
Img2Img(r, U) ==
    /\ pc[r] = "idle"
    /\ \E prompt \in U.prompts, system_prompt \in U.system_prompts, image \in U.images :
          /\ args' = [args EXCEPT ![r] =
                [endpoint |-> "img2img", prompt |-> prompt,
                 system_prompt |-> system_prompt, image |-> image]]
          /\ IF ~StartsWith(image.content_type.str, <<"i", "m", "a", "g", "e", "/">>)
             THEN Respond(r, HTTPException(400, MsgNotImage)) /\ UNCHANGED calls
             ELSE IF ~Truthy(image.filename) \/ ~Contains(image.filename.str, <<".">>)
             THEN Respond(r, HTTPException(400, MsgNoExtension)) /\ UNCHANGED calls
             ELSE IF ExtensionRejected(image.filename.str)
             THEN Respond(r, HTTPException(400,
                      MsgBadExtension \o Lower(PathSuffix(image.filename.str))))
                  /\ UNCHANGED calls
             ELSE /\ calls' = [calls EXCEPT ![r] = Append(@, UploadCall(image.filename.str))]
                  /\ pc' = [pc EXCEPT ![r] = "upload"]
                  /\ UNCHANGED reply
    /\ UNCHANGED <<file, heap, loc, resp>>

(* the POST /upload/image answers; img2img goes on to its POST /prompt *)
UploadReturns(r, U) ==
    /\ pc[r] = "upload"
    /\ \E rsp \in U.upload_resps :
          /\ resp' = [resp EXCEPT ![r] = rsp]
          /\ IF BackendFailed(rsp)
             THEN /\ Respond(r, BackendError(MsgUploadFailed, rsp))
                  /\ UNCHANGED <<heap, loc, calls>>
             ELSE \E u \in FreshUuids(U) :
                  LET name == UploadedName(rsp.json, args[r].image.filename.str)
                      b    == build_workflow(heap, args[r].prompt, name, args[r].system_prompt)
                  IN  /\ heap' = b.heap
                      /\ loc' = [loc EXCEPT ![r] = [@ EXCEPT !.uploaded_filename = name,
                                                            !.client_id = Str(u), !.wf = b.wf]]
                      /\ calls' = [calls EXCEPT ![r] = Append(@, SubmitCall(b.heap, b.wf, Str(u)))]
                      /\ pc' = [pc EXCEPT ![r] = "submit"]
                      /\ UNCHANGED reply
    /\ UNCHANGED <<file, args>>

(* the POST /prompt answers; on success wait_for_image_meta starts *)
SubmitReturns(r, U) ==
    /\ pc[r] = "submit"
    /\ \E rsp \in U.submit_resps :
          /\ resp' = [resp EXCEPT ![r] = rsp]
          /\ IF BackendFailed(rsp)
             THEN /\ Respond(r, BackendError(MsgSubmitFailed, rsp))
                  /\ UNCHANGED <<loc, calls>>
             ELSE IF ~HasKey(rsp.json, Kprompt_id)
             THEN Respond(r, ServerError) /\ UNCHANGED <<loc, calls>>
             ELSE /\ loc' = [loc EXCEPT ![r] = [@ EXCEPT !.prompt_id = Lookup(rsp.json, Kprompt_id)]]
                  /\ IF MoreTicks(0)
                     THEN /\ calls' = [calls EXCEPT ![r] =
                                 Append(@, HistoryCall(Lookup(rsp.json, Kprompt_id)))]
                          /\ pc' = [pc EXCEPT ![r] = "history"]
                          /\ UNCHANGED reply
                     ELSE Respond(r, HTTPException(502, MsgTimeout)) /\ UNCHANGED calls
    /\ UNCHANGED <<file, heap, args>>

(* a GET /history/{prompt_id} answers: the tick sleeps, or returns the     *)
(* descriptor, and then download_image_bytes issues its GET /view *)
HistoryReturns(r, U) ==
    /\ pc[r] = "history"
    /\ \E rsp \in U.history_resps :
          /\ resp' = [resp EXCEPT ![r] = rsp]
          /\ LET t == Tick(rsp, loc[r].prompt_id.str)
             IN  IF t.kind = "sleep"
                 THEN /\ calls' = [calls EXCEPT ![r] = Append(@, SleepCall)]
                      /\ pc' = [pc EXCEPT ![r] = "sleep"]
                      /\ UNCHANGED <<loc, reply>>
                 ELSE IF t.kind = "raise"
                 THEN Respond(r, ServerError) /\ UNCHANGED <<loc, calls>>
                 ELSE /\ loc' = [loc EXCEPT ![r] = [@ EXCEPT !.meta = [obj |-> t.meta]]]
                      /\ calls' = [calls EXCEPT ![r] = Append(@, ViewCall(t.meta))]
                      /\ pc' = [pc EXCEPT ![r] = "view"]
                      /\ UNCHANGED reply
    /\ UNCHANGED <<file, heap, args>>

(* SleepReturns, the end of the loop not followed by the raise: after the  *)
(* last tick nothing happens *)
SleepReturnsNoRaise(r) ==
    /\ pc[r] = "sleep"
    /\ MoreTicks(loc[r].tick + 1)
    /\ loc' = [loc EXCEPT ![r] = [@ EXCEPT !.tick = @ + 1]]
    /\ calls' = [calls EXCEPT ![r] = Append(@, HistoryCall(loc[r].prompt_id))]
    /\ pc' = [pc EXCEPT ![r] = "history"]
    /\ UNCHANGED <<file, heap, args, resp, reply>>

(* SleepReturns, a poll that has timed out started over, once *)
SleepReturnsRetry(r) ==
    /\ pc[r] = "sleep"
    /\ IF MoreTicks(loc[r].tick + 1)
       THEN /\ loc' = [loc EXCEPT ![r] = [@ EXCEPT !.tick = @ + 1]]
            /\ calls' = [calls EXCEPT ![r] = Append(@, HistoryCall(loc[r].prompt_id))]
            /\ pc' = [pc EXCEPT ![r] = "history"]
            /\ UNCHANGED reply
       ELSE IF Cardinality({i \in 1..Len(calls[r]) : calls[r][i].op = "GET /history"})
                  <= PollTimeout
       THEN /\ loc' = [loc EXCEPT ![r] = [@ EXCEPT !.tick = 0]]
            /\ calls' = [calls EXCEPT ![r] = Append(@, HistoryCall(loc[r].prompt_id))]
            /\ pc' = [pc EXCEPT ![r] = "history"]
            /\ UNCHANGED reply
       ELSE /\ loc' = [loc EXCEPT ![r] = [@ EXCEPT !.tick = @ + 1]]
            /\ Respond(r, HTTPException(502, MsgTimeout)) /\ UNCHANGED calls
    /\ UNCHANGED <<file, heap, args, resp>>

(* asyncio.sleep(1) is over: the next tick, or the end of the budget *)
SleepReturns(r) ==
    /\ pc[r] = "sleep"
    /\ loc' = [loc EXCEPT ![r] = [@ EXCEPT !.tick = @ + 1]]
    /\ IF MoreTicks(loc[r].tick + 1)
       THEN /\ calls' = [calls EXCEPT ![r] = Append(@, HistoryCall(loc[r].prompt_id))]
            /\ pc' = [pc EXCEPT ![r] = "history"]
            /\ UNCHANGED reply
       ELSE Respond(r, HTTPException(502, MsgTimeout)) /\ UNCHANGED calls
    /\ UNCHANGED <<file, heap, args, resp>>

(* the GET /view answers: the image goes to the caller *)
ViewReturns(r, U) ==
    /\ pc[r] = "view"
    /\ \E rsp \in U.view_resps :
          /\ resp' = [resp EXCEPT ![r] = rsp]
          /\ IF BackendFailed(rsp)
             THEN Respond(r, BackendError(MsgDownloadFailed, rsp))
             ELSE Respond(r, ImageResponse(rsp.body, loc[r].meta.obj))
    /\ UNCHANGED <<file, heap, args, loc, calls>>

(* the response is sent: the request's names go, and the graph with them *)
Discard(r) ==
    /\ pc[r] = "done"
    /\ pc' = [pc EXCEPT ![r] = "idle"]
    /\ args' = [args EXCEPT ![r] = NoArgs]
    /\ loc' = [loc EXCEPT ![r] = NoLocals]
    /\ calls' = [calls EXCEPT ![r] = <<>>]
    /\ resp' = [resp EXCEPT ![r] = None]
    /\ reply' = [reply EXCEPT ![r] = Pending]
    /\ heap' = Collect(heap, Roots(r))
    /\ UNCHANGED file

----------------------------------------------------------------------------
(* The inputs and the backend's answers *)

PNG == <<"i", "m", "a", "g", "e", "/", "p", "n", "g">>

Handle == <<"abc123">>

OtherHandle == <<"zzz999">>

ImgOut == [obj |-> << Entry(Kfilename, Str(<<"out001.png">>)),
                      Entry(Ksubfolder, Str(<<>>)),
                      Entry(Ktype, Str(<<"output">>)) >>]

ImgTemp == [obj |-> << Entry(Kfilename, Str(<<"tmp_7.png">>)),
                       Entry(Ksubfolder, Str(<<"previews">>)),
                       Entry(Ktype, Str(<<"temp">>)) >>]

ImgBare == [obj |-> << Entry(Kfilename, Str(<<"out002.png">>)) >>]

ImgNameless == [obj |-> << Entry(Ksubfolder, Str(<<"previews">>)) >>]

Images(imgs) == << Entry(Kimages, [lst |-> imgs]) >>

(* what one node may report: no "images" key, or a list of images *)
NodeOutputs ==
    { <<>>, Images(<<>>), Images(<<ImgOut>>), Images(<<ImgTemp, ImgOut>>),
      Images(<<ImgBare>>), Images(<<ImgNameless>>) }

PairedOutputs ==
    { <<>>, Images(<<>>), Images(<<ImgOut>>), Images(<<ImgTemp, ImgBare>>), Images(<<ImgBare>>) }

(* the outputs mappings: no node, node "9" or "3" alone, both in either order *)
OutputMaps ==
    {<<>>}
    \cup {<< Entry(n, [obj |-> o]) >> : n \in {K9, K3}, o \in NodeOutputs}
    \cup {<< Entry(K9, [obj |-> o1]), Entry(K3, [obj |-> o2]) >> :
              o1 \in PairedOutputs, o2 \in PairedOutputs}
    \cup {<< Entry(K3, [obj |-> o1]), Entry(K9, [obj |-> o2]) >> :
              o1 \in PairedOutputs, o2 \in PairedOutputs}

(* a backend response: the status, the body as text and as decoded JSON *)
Rsp(status, text, json) == [status |-> status, text |-> text, json |-> json]

ErrorJson(text) == << Entry(<<"error">>, Str(text)) >>

(* the answers of GET /history/{handle}: an error, an empty body, a body   *)
(* with another handle only, the handle with no outputs yet, the handle    *)
(* with each of the outputs mappings *)
HistoryResponses(handle, maps) ==
    { Rsp(404, <<"not found">>, ErrorJson(<<"not found">>)),
      Rsp(200, <<"{}">>, <<>>),
      Rsp(200, <<"{other}">>,
          << Entry(OtherHandle, [obj |-> << Entry(Koutputs,
                 [obj |-> << Entry(K9, [obj |-> Images(<<ImgOut>>)]) >>]) >>]) >>),
      Rsp(200, <<"{handle}">>, << Entry(handle, [obj |-> <<>>]) >>) }
    \cup { Rsp(200, <<"{handle: outputs}">>,
               << Entry(handle, [obj |-> << Entry(Koutputs, [obj |-> m]) >>]) >>) : m \in maps }

PhotoGif == <<"p", "h", "o", "t", "o", ".", "g", "i", "f">>

PhotoJPG == <<"p", "h", "o", "t", "o", ".", "J", "P", "G">>

RingPng == <<"r", "i", "n", "g", ".", "p", "n", "g">>

(* one request at a time, every kind of upload and of backend answer *)
Universe ==
    [prompts        |-> { <<"a red jade dragon pendant">>,
                          <<" ", "see: ">> \o DEFAULT_SYSTEM_PROMPT \o <<"\n">> },
     system_prompts |-> { None, Str(<<>>), Str(<<"You are a seal carver.">>),
                          Str(DEFAULT_SYSTEM_PROMPT) },
     images         |->
        [content_type : { Str(PNG), Str(<<>>),
                          Str(<<"t", "e", "x", "t", "/", "p", "l", "a", "i", "n">>) },
         filename     : { None, Str(<<>>), Str(PhotoGif), Str(PhotoJPG), Str(RingPng),
                          Str(<<"p", "h", "o", "t", "o">>),
                          Str(<<".", "p", "n", "g">>),
                          Str(<<"p", "h", "o", "t", "o", ".">>),
                          Str(<<"a", ".", "p", "n", "g", "/", "b">>) }],
     uuids          |-> { <<"uuid-1">> },
     upload_resps   |-> { Rsp(500, <<"disk full">>, ErrorJson(<<"disk full">>)),
                          Rsp(200, <<"{}">>, <<>>),
                          Rsp(200, <<"{name}">>, << Entry(Kname, Str(<<"ring_00012.png">>)) >>),
                          Rsp(200, <<"{name: ''}">>, << Entry(Kname, Str(<<>>)) >>) },
     submit_resps   |-> { Rsp(500, <<"out of memory">>, ErrorJson(<<"out of memory">>)),
                          Rsp(400, <<"invalid prompt">>, ErrorJson(<<"invalid prompt">>)),
                          Rsp(200, <<"{}">>, <<>>),
                          Rsp(200, <<"{prompt_id}">>, << Entry(Kprompt_id, Str(Handle)) >>) },
     history_resps  |-> HistoryResponses(Handle, OutputMaps),
     view_resps     |-> { [status |-> 404, text |-> <<"no such file">>, body |-> <<"no such file">>],
                          [status |-> 200, text |-> <<"PNG bytes B">>, body |-> <<"PNG bytes B">>],
                          [status |-> 200, text |-> <<>>, body |-> <<>>] }]

----------------------------------------------------------------------------
(* After import: the template is loaded from the file, no request runs *)
InitOver(slots, files) ==
    /\ file \in files
    /\ heap = json_loads(file, WORKFLOW_TEMPLATE)
    /\ pc = [r \in slots |-> "idle"]
    /\ args = [r \in slots |-> NoArgs]
    /\ loc = [r \in slots |-> NoLocals]
    /\ calls = [r \in slots |-> <<>>]
    /\ resp = [r \in slots |-> None]
    /\ reply = [r \in slots |-> Pending]

(* one step of the request in slot r *)
Step(r, U) ==
    \/ Txt2Img(r, U)
    \/ Img2Img(r, U)
    \/ UploadReturns(r, U)
    \/ SubmitReturns(r, U)
    \/ HistoryReturns(r, U)
    \/ SleepReturns(r)
    \/ ViewReturns(r, U)
    \/ Discard(r)

Init == InitOver({"r1"}, TemplateFiles)

Next == \E r \in {"r1"} : Step(r, Universe)

Spec == Init /\ [][Next]_vars

(* one request at a time over fewer inputs, with an answer of every kind   *)
(* to every call *)
UniverseFair ==
    [prompts        |-> { <<"a red jade dragon pendant">> },
     system_prompts |-> { None, Str(<<"You are a seal carver.">>) },
     images         |-> { [content_type |-> Str(PNG), filename |-> Str(RingPng)],
                          [content_type |-> Str(PNG), filename |-> Str(PhotoGif)] },
     uuids          |-> { <<"uuid-1">> },
     upload_resps   |-> { Rsp(500, <<"disk full">>, ErrorJson(<<"disk full">>)),
                          Rsp(200, <<"{name}">>, << Entry(Kname, Str(<<"ring_00012.png">>)) >>) },
     submit_resps   |-> { Rsp(500, <<"out of memory">>, ErrorJson(<<"out of memory">>)),
                          Rsp(200, <<"{}">>, <<>>),
                          Rsp(200, <<"{prompt_id}">>, << Entry(Kprompt_id, Str(Handle)) >>) },
     history_resps  |-> HistoryResponses(Handle,
                            { << Entry(K9, [obj |-> Images(<<>>)]) >>,
                              << Entry(K9, [obj |-> Images(<<ImgOut>>)]) >>,
                              << Entry(K3, [obj |-> Images(<<ImgNameless>>)]) >> }),
     view_resps     |-> { [status |-> 404, text |-> <<"no such file">>, body |-> <<"no such file">>],
                          [status |-> 200, text |-> <<"PNG bytes B">>, body |-> <<"PNG bytes B">>] }]

InitFair == InitOver({"r1"}, TemplateFiles)

NextFair == \E r \in {"r1"} : Step(r, UniverseFair)

(* what the event loop and the backend owe a request that is at an await:  *)
(* the call it awaits returns some response, the sleep it awaits ends *)
Returns(r) ==
    \/ UploadReturns(r, UniverseFair)
    \/ SubmitReturns(r, UniverseFair)
    \/ HistoryReturns(r, UniverseFair)
    \/ SleepReturns(r)
    \/ ViewReturns(r, UniverseFair)

(* every await of every request is resumed in the end; no request has to   *)
(* arrive, and no response has to be collected *)
SpecFair == InitFair /\ [][NextFair]_vars /\ \A r \in {"r1"} : WF_vars(Returns(r))

(* two requests at a time, interleaved at their awaits, over fewer inputs  *)
(* and answers: the upload and the submission may fail, a status body may  *)
(* be about the other handle only *)
UniverseConc ==
    [prompts        |-> { <<"a red jade dragon pendant">>, <<"a ring">> },
     system_prompts |-> { None },
     images         |-> { [content_type |-> Str(PNG), filename |-> Str(RingPng)] },
     uuids          |-> { <<"uuid-1">>, <<"uuid-2">> },
     upload_resps   |-> { Rsp(500, <<"disk full">>, ErrorJson(<<"disk full">>)),
                          Rsp(200, <<"{name}">>, << Entry(Kname, Str(<<"ring_00012.png">>)) >>) },
     submit_resps   |-> { Rsp(500, <<"out of memory">>, ErrorJson(<<"out of memory">>)),
                          Rsp(200, <<"{prompt_id}">>, << Entry(Kprompt_id, Str(Handle)) >>),
                          Rsp(200, <<"{prompt_id}">>, << Entry(Kprompt_id, Str(OtherHandle)) >>) },
     history_resps  |-> { Rsp(200, <<"{handle: outputs}">>,
                              << Entry(Handle, [obj |-> << Entry(Koutputs,
                                     [obj |-> << Entry(K9, [obj |-> Images(<<ImgOut>>)]) >>]) >>]) >>),
                          Rsp(200, <<"{handle: outputs}">>,
                              << Entry(OtherHandle, [obj |-> << Entry(Koutputs,
                                     [obj |-> << Entry(K3, [obj |-> Images(<<ImgTemp>>)]) >>]) >>]) >>) },
     view_resps     |-> { [status |-> 200, text |-> <<"PNG bytes B">>, body |-> <<"PNG bytes B">>] }]

InitConc == InitOver({"r1", "r2"}, {t \in TemplateFiles : HasKey(t, K9)})

NextConc == \E r \in {"r1", "r2"} : Step(r, UniverseConc)

SpecConc == InitConc /\ [][NextConc]_vars

----------------------------------------------------------------------------
(* What the properties below read off a state *)

(* the operations of request r's calls, in the order it issued them *)
Ops(r) == [i \in 1..Len(calls[r]) |-> calls[r][i].op]

Count(r, op) == Cardinality({i \in 1..Len(calls[r]) : calls[r][i].op = op})

LastOp(r) == IF calls[r] = <<>> THEN "none" ELSE calls[r][Len(calls[r])].op

(* the status body reports an image for the handle: the handle is there    *)
(* and some node of its outputs has a non-empty images list *)
ReportsImage(rsp, handle) ==
    /\ rsp.status = 200
    /\ HasKey(rsp.json, handle)
    /\ HasKey(Lookup(rsp.json, handle).obj, Koutputs)
    /\ LET outs == Lookup(Lookup(rsp.json, handle).obj, Koutputs).obj
       IN  \E i \in 1..Len(outs) :
              /\ HasKey(outs[i].v.obj, Kimages)
              /\ Lookup(outs[i].v.obj, Kimages).lst # <<>>

(* [upload,] submit, then ticks (a status GET, a sleep), the last status   *)
(* GET followed by nothing, by its sleep, or by the fetch that ends it *)
InOrder(ops, first) ==
    \/ ops = <<>>
    \/ first = 2 /\ ops = <<"POST /upload/image">>
    \/ /\ Len(ops) >= first
       /\ ops[first] = "POST /prompt"
       /\ first = 2 => ops[1] = "POST /upload/image"
       /\ \A i \in (first + 1)..Len(ops) :
             IF (i - first) % 2 = 1
             THEN ops[i] = "GET /history"
             ELSE ops[i] = "sleep" \/ (ops[i] = "GET /view" /\ i = Len(ops))

TimedOut(r) == reply[r].status = 502 /\ reply[r].detail = MsgTimeout

----------------------------------------------------------------------------
(* C1: within one request the backend calls occur in the order [upload,]   *)
(* submit, poll ticks, fetch: every GET /history/{prompt_id} comes after   *)
(* the POST /prompt and carries the handle its 200 response returned (the  *)
(* first one is issued on receiving that response), and the GET /view is   *)
(* issued only on a status response that reports an image. *)
C1_Ordering ==
    \A r \in DOMAIN pc :
        /\ InOrder(Ops(r), IF args[r].endpoint = "img2img" THEN 2 ELSE 1)
        /\ \A i \in 1..Len(calls[r]) :
              calls[r][i].op = "GET /history" =>
                  /\ IsStr(loc[r].prompt_id)
                  /\ calls[r][i].prompt_id = loc[r].prompt_id
        /\ (pc[r] = "history" /\ Count(r, "GET /history") = 1) =>
              /\ resp[r].status = 200
              /\ HasKey(resp[r].json, Kprompt_id)
              /\ Lookup(resp[r].json, Kprompt_id) = calls[r][Len(calls[r])].prompt_id
        /\ Count(r, "GET /view") > 0 => ~IsNone(loc[r].meta)
        /\ pc[r] = "view" =>
              /\ LastOp(r) = "GET /view"
              /\ ReportsImage(resp[r], loc[r].prompt_id.str)

C1_Witness ==
    \E r \in DOMAIN pc :
        /\ reply[r].status = 200
        /\ Ops(r) = <<"POST /upload/image", "POST /prompt", "GET /history", "sleep",
                      "GET /history", "GET /view">>

----------------------------------------------------------------------------
(* C2: a poll that never sees an image ends in the 502 with the timeout    *)
(* message after exactly PollTimeout status GETs, each followed by one     *)
(* sleep of one second: the timeout is raised only then, no status GET     *)
(* follows the PollTimeout-th, no descriptor is returned and nothing is    *)
(* fetched. *)
C2_Timeout ==
    \A r \in DOMAIN pc :
        /\ Count(r, "GET /history") <= PollTimeout
        /\ TimedOut(r) =>
              /\ Count(r, "GET /history") = PollTimeout
              /\ Count(r, "sleep") = PollTimeout
              /\ \A i \in 1..Len(calls[r]) :
                    calls[r][i].op = "GET /history" =>
                        /\ i < Len(calls[r])
                        /\ calls[r][i + 1] = SleepCall
              /\ IsNone(loc[r].meta)
              /\ Count(r, "GET /view") = 0
              /\ ~ReportsImage(resp[r], loc[r].prompt_id.str)
        /\ pc[r] = "sleep" => reply[r] = Pending /\ ~ReportsImage(resp[r], loc[r].prompt_id.str)
        /\ (pc[r] = "done" /\ LastOp(r) \in {"sleep", "GET /history"}
               /\ ~ReportsImage(resp[r], loc[r].prompt_id.str)) =>
              TimedOut(r)

C2_Witness ==
    \E r \in DOMAIN pc :
        /\ TimedOut(r)
        /\ Count(r, "GET /history") = PollTimeout
        /\ resp[r].status = 200
        /\ HasKey(resp[r].json, loc[r].prompt_id.str)

----------------------------------------------------------------------------
(* what holds of request r in every state, and over every step *)
C3_State(r) ==
    /\ reply[r].status \notin {0, 200} =>
          /\ pc[r] = "done"
          /\ "content" \notin DOMAIN reply[r]
    /\ reply[r].status = 400 => calls[r] = <<>>
    /\ (pc[r] = "done" /\ LastOp(r) = "POST /prompt" /\ resp[r].status # 200) =>
          /\ reply[r].status = 502
          /\ reply[r].detail = MsgSubmitFailed \o resp[r].text
          /\ Count(r, "GET /history") = 0
          /\ Count(r, "GET /view") = 0
    /\ (pc[r] = "done" /\ LastOp(r) = "POST /upload/image" /\ resp[r].status # 200) =>
          /\ reply[r].status = 502
          /\ Count(r, "POST /prompt") = 0
    /\ (pc[r] = "done" /\ LastOp(r) = "GET /view" /\ resp[r].status # 200) =>
          reply[r].status = 502
    /\ pc[r] \in {"upload", "submit", "history", "sleep", "view"} => reply[r] = Pending

C3_Step(r) ==
    /\ (reply[r] = Pending /\ reply'[r].status \notin {0, 200}) => calls'[r] = calls[r]
    /\ reply[r].status \notin {0, 200} =>
          \/ calls'[r] = calls[r] /\ reply'[r] = reply[r]
          \/ calls'[r] = <<>> /\ reply'[r] = Pending


(* C3: a failure ends the request at once.  An error response carries no   *)
(* image bytes; a non-200 answer to the upload, the submission or the      *)
(* download is answered with 502 and the backend's text, a rejected upload *)
(* with 400 and no backend call; the step that fails issues no call, and   *)
(* none is issued after it.  A 500 on POST /prompt gives 502 with the      *)
(* backend's text and neither a GET /history nor a GET /view. *)
C3_Abort ==
    /\ [](\A r \in DOMAIN pc : C3_State(r))
    /\ [][\A r \in DOMAIN pc : C3_Step(r)]_vars

C3_Witness ==
    \E r \in DOMAIN pc :
        /\ pc[r] = "done"
        /\ LastOp(r) = "POST /prompt"
        /\ resp[r].status = 500
        /\ reply[r].status = 502
        /\ Contains(reply[r].detail, <<"out of memory">>)

----------------------------------------------------------------------------
(* C4, as claimed: a non-200 response from any backend call, the status    *)
(* GET included, is answered with 502 and the backend's text. *)
C4_Original ==
    \A r \in DOMAIN pc :
        (~IsNone(resp[r]) /\ resp[r].status # 200) =>
            /\ reply[r].status = 502
            /\ Contains(reply[r].detail, resp[r].text)

(* C4, amended: a non-200 response to POST /upload/image, POST /prompt or  *)
(* GET /view is answered with 502, the message followed by the backend's   *)
(* text.  A non-200 response to GET /history/{prompt_id} is not surfaced:  *)
(* the tick counts as not ready, the request stays pending, and if the     *)
(* budget runs out the 502 carries the fixed timeout message only. *)
C4_Surfaced ==
    \A r \in DOMAIN pc :
        (~IsNone(resp[r]) /\ resp[r].status # 200) =>
            IF LastOp(r) \in {"POST /upload/image", "POST /prompt", "GET /view"}
            THEN /\ pc[r] = "done"
                 /\ reply[r].status = 502
                 /\ \E msg \in {MsgUploadFailed, MsgSubmitFailed, MsgDownloadFailed} :
                        reply[r].detail = msg \o resp[r].text
            ELSE /\ LastOp(r) \in {"sleep", "GET /history"}
                 /\ reply[r] = Pending \/ reply[r] = HTTPException(502, MsgTimeout)

C4_Witness ==
    \E r \in DOMAIN pc :
        /\ pc[r] = "done"
        /\ LastOp(r) = "GET /view"
        /\ resp[r].status = 404
        /\ reply[r].status = 502
        /\ Contains(reply[r].detail, <<"no such file">>)

----------------------------------------------------------------------------
(* the images a node reports, and the outputs in the status body last received *)
ImagesOf(node_output) ==
    IF HasKey(node_output, Kimages) THEN Lookup(node_output, Kimages).lst ELSE <<>>

SnapshotOutputs(r) ==
    Lookup(Lookup(resp[r].json, loc[r].prompt_id.str).obj, Koutputs).obj

BothReport(outs) ==
    /\ \E i \in 1..Len(outs) : outs[i].k = K9 /\ ImagesOf(outs[i].v.obj) # <<>>
    /\ \E i \in 1..Len(outs) : outs[i].k # K9 /\ ImagesOf(outs[i].v.obj) # <<>>


(* C5: when the status body reports images for node "9" and for another    *)
(* node, the descriptor returned is that of node "9"'s first image, in     *)
(* whichever order the outputs mapping lists the nodes. *)
C5_PreferredNode ==
    \A r \in DOMAIN pc :
        (pc[r] = "view" /\ BothReport(SnapshotOutputs(r))) =>
            LET img == ImagesOf(Lookup(SnapshotOutputs(r), K9).obj)[1].obj
            IN  /\ Lookup(loc[r].meta.obj, Kfilename) = Lookup(img, Kfilename)
                /\ Lookup(loc[r].meta.obj, Ksubfolder) = Get(img, Ksubfolder, Str(<<>>))
                /\ Lookup(loc[r].meta.obj, Ktype) = Get(img, Ktype, Str(<<"output">>))

C5_Witness ==
    \E r \in DOMAIN pc :
        /\ pc[r] = "view"
        /\ BothReport(SnapshotOutputs(r))
        /\ SnapshotOutputs(r)[1].k = K3
        /\ ImagesOf(SnapshotOutputs(r)[1].v.obj)[1] # ImagesOf(SnapshotOutputs(r)[2].v.obj)[1]

----------------------------------------------------------------------------
(* the uploads img2img is to reject *)
ImageType(image) == StartsWith(image.content_type.str, <<"i", "m", "a", "g", "e", "/">>)

Invalid(image) ==
    \/ ~ImageType(image)
    \/ IsNone(image.filename)
    \/ image.filename.str = <<>>
    \/ \A i \in 1..Len(image.filename.str) : image.filename.str[i] # "."
    \/ Lower(PathSuffix(image.filename.str)) \notin
          { <<".", "j", "p", "g">>, <<".", "j", "p", "e", "g">>, <<".", "p", "n", "g">>,
            <<".", "b", "m", "p">>, <<".", "t", "i", "f", "f">>, <<".", "w", "e", "b", "p">> }


(* C6: an /img2img upload whose content type does not begin with "image/", *)
(* whose file name is missing, empty or without a '.', or whose lower-cased *)
(* extension is not an allowed one is answered with 400 before any backend *)
(* call; "photo.gif" is rejected so, and "photo.JPG" with an image content *)
(* type reaches the POST /upload/image. *)
C6_Validation ==
    \A r \in DOMAIN pc :
        args[r].endpoint = "img2img" =>
            /\ Invalid(args[r].image) =>
                  /\ pc[r] = "done"
                  /\ reply[r].status = 400
                  /\ calls[r] = <<>>
            /\ args[r].image.filename = Str(PhotoGif) =>
                  reply[r].status = 400 /\ calls[r] = <<>>
            /\ (args[r].image.filename = Str(PhotoJPG) /\ ImageType(args[r].image)) =>
                  /\ calls[r] # <<>>
                  /\ calls[r][1].op = "POST /upload/image"
                  /\ calls[r][1].filename = PhotoJPG

C6_Witness ==
    \E r \in DOMAIN pc :
        /\ args[r].endpoint = "img2img"
        /\ args[r].image = [content_type |-> Str(PNG), filename |-> Str(PhotoGif)]
        /\ reply[r].status = 400
        /\ calls[r] = <<>>

----------------------------------------------------------------------------
(* The graph of a request, and the text in its node "23" *)

Graph(r) == json_dumps(heap, loc[r].wf)

Built(r) == loc[r].wf # 0

NodeInput(g, node, field) == Lookup(Lookup(Lookup(g, node).obj, Kinputs).obj, field)

InjectedText(r) == NodeInput(Graph(r), K23, Ktext).str

(* the graph POSTed to /prompt by request r *)
Submitted(r) ==
    LET i == CHOOSE i \in 1..Len(calls[r]) : calls[r][i].op = "POST /prompt"
    IN  Lookup(calls[r][i].json, <<"prompt">>).obj

(* dicts equal entry by entry, but for the value of one key, for which     *)
(* Same(v, w) is asked instead *)
EqualBut(d, e, key, Same(_, _)) ==
    /\ Len(d) = Len(e)
    /\ \A i \in 1..Len(d) :
          /\ d[i].k = e[i].k
          /\ IF d[i].k = key THEN Same(d[i].v, e[i].v) ELSE d[i].v = e[i].v

AnyText(v, w) == IsStr(v)

InputsButText(v, w) == IsObj(v) /\ IsObj(w) /\ EqualBut(v.obj, w.obj, Ktext, AnyText)

NodeButText(v, w) == IsObj(v) /\ IsObj(w) /\ EqualBut(v.obj, w.obj, Kinputs, InputsButText)

(* g is the template t but for the text of node "23" *)
TemplateButText(g, t) == EqualBut(g, t, K23, NodeButText)

----------------------------------------------------------------------------
(* C7: the graph build_workflow returns without an image reference is the  *)
(* template but for the text field of node "23"; the template itself stays *)
(* what was loaded from the file; calls with the same inputs return equal  *)
(* graphs. *)
C7_Frame ==
    /\ json_dumps(heap, WORKFLOW_TEMPLATE) = file
    /\ \A r \in DOMAIN pc :
          (Built(r) /\ args[r].endpoint = "txt2img") =>
              /\ loc[r].wf # WORKFLOW_TEMPLATE
              /\ TemplateButText(Graph(r), file)
              /\ Submitted(r) = Graph(r)
    /\ \A r, q \in DOMAIN pc :
          (/\ Built(r) /\ Built(q)
           /\ args[r].endpoint = "txt2img" /\ args[q].endpoint = "txt2img"
           /\ args[r].prompt = args[q].prompt
           /\ args[r].system_prompt = args[q].system_prompt) =>
              Graph(r) = Graph(q)

C7_Witness ==
    \E r, q \in DOMAIN pc :
        /\ r # q
        /\ Built(r) /\ Built(q)
        /\ args[r].endpoint = "txt2img" /\ args[q].endpoint = "txt2img"
        /\ args[r].prompt = args[q].prompt
        /\ Graph(r) # file

----------------------------------------------------------------------------
(* C8, as claimed: whenever system_prompt is supplied, whatever its value  *)
(* and whatever the prompt, DEFAULT_SYSTEM_PROMPT occurs nowhere in the    *)
(* injected text. *)
C8_Original ==
    \A r \in DOMAIN pc :
        (Built(r) /\ ~IsNone(args[r].system_prompt)) =>
            ~Contains(InjectedText(r), DEFAULT_SYSTEM_PROMPT)

(* C8, amended: a supplied, non-empty system_prompt replaces the persona:  *)
(* the injected text is system_prompt, a blank line, the prompt, so        *)
(* DEFAULT_SYSTEM_PROMPT occurs in it only where system_prompt or the      *)
(* prompt contains it.  An empty system_prompt counts as omitted. *)
C8_Override ==
    \A r \in DOMAIN pc :
        (Built(r) /\ ~IsNone(args[r].system_prompt)) =>
            IF args[r].system_prompt.str # <<>>
            THEN /\ InjectedText(r) = args[r].system_prompt.str \o <<"\n", "\n">> \o args[r].prompt
                 /\ Contains(InjectedText(r), DEFAULT_SYSTEM_PROMPT) <=>
                       \/ Contains(args[r].system_prompt.str, DEFAULT_SYSTEM_PROMPT)
                       \/ Contains(args[r].prompt, DEFAULT_SYSTEM_PROMPT)
            ELSE InjectedText(r) = DEFAULT_SYSTEM_PROMPT \o <<"\n", "\n">> \o args[r].prompt

C8_Witness ==
    \E r \in DOMAIN pc :
        /\ Built(r)
        /\ args[r].system_prompt = Str(<<"You are a seal carver.">>)
        /\ ~Contains(args[r].prompt, DEFAULT_SYSTEM_PROMPT)
        /\ ~Contains(InjectedText(r), DEFAULT_SYSTEM_PROMPT)

----------------------------------------------------------------------------
(* C9: with system_prompt omitted, the injected text is exactly            *)
(* DEFAULT_SYSTEM_PROMPT, a blank line ("\n\n"), and the prompt as given. *)
C9_Default ==
    \A r \in DOMAIN pc :
        (Built(r) /\ IsNone(args[r].system_prompt)) =>
            /\ InjectedText(r) = DEFAULT_SYSTEM_PROMPT \o <<"\n", "\n">> \o args[r].prompt
            /\ NodeInput(Submitted(r), K23, Ktext).str = InjectedText(r)

C9_Witness ==
    \E r \in DOMAIN pc :
        /\ Built(r)
        /\ IsNone(args[r].system_prompt)
        /\ args[r].prompt[1] = " "
        /\ args[r].prompt[Len(args[r].prompt)] = "\n"

----------------------------------------------------------------------------
(* the nodes of an outputs mapping that report an image *)
ReportingNodes(outs) == {i \in 1..Len(outs) : ImagesOf(outs[i].v.obj) # <<>>}


(* C10: when the status body first reports an image {f, s, t} for the      *)
(* handle on tick k, the k-1 ticks before it having slept, exactly k       *)
(* status GETs are made and the fetch is issued with f, s, t; when the     *)
(* fetch returns bytes B the response is 200, image/png, Content-          *)
(* Disposition inline with filename f, and its body is B. *)
C10_Success ==
    \A r \in DOMAIN pc :
        /\ pc[r] = "view" =>
              /\ Count(r, "GET /history") = loc[r].tick + 1
              /\ Count(r, "sleep") = loc[r].tick
              /\ Count(r, "GET /view") = 1
              /\ \A i \in ReportingNodes(SnapshotOutputs(r)) :
                    LET img == ImagesOf(SnapshotOutputs(r)[i].v.obj)[1].obj
                    IN  (/\ ReportingNodes(SnapshotOutputs(r)) = {i}
                         /\ HasKey(img, Ksubfolder) /\ HasKey(img, Ktype)) =>
                            calls[r][Len(calls[r])].params =
                                << Entry(Kfilename, Lookup(img, Kfilename)),
                                   Entry(Ksubfolder, Lookup(img, Ksubfolder)),
                                   Entry(Ktype, Lookup(img, Ktype)) >>
        /\ (pc[r] = "done" /\ LastOp(r) = "GET /view" /\ resp[r].status = 200) =>
              /\ Count(r, "GET /history") = loc[r].tick + 1
              /\ Count(r, "GET /view") = 1
              /\ reply[r] =
                    [status      |-> 200,
                     content     |-> resp[r].body,
                     media_type  |-> <<"image/png">>,
                     disposition |-> <<"inline; filename=\"">>
                                     \o Lookup(calls[r][Len(calls[r])].params, Kfilename).str
                                     \o <<"\"">>]
        /\ reply[r].status = 200 => LastOp(r) = "GET /view" /\ resp[r].status = 200

C10_Witness ==
    \E r \in DOMAIN pc :
        /\ reply[r].status = 200
        /\ reply[r].content = <<"PNG bytes B">>
        /\ reply[r].disposition = <<"inline; filename=\"", "out001.png", "\"">>
        /\ Count(r, "GET /history") = 3
        /\ Count(r, "sleep") = 2

----------------------------------------------------------------------------
(* the upload's answer names the file: "name" is there, and not empty *)
Assigned(rsp) ==
    /\ rsp.status = 200
    /\ HasKey(rsp.json, Kname)
    /\ Truthy(Lookup(rsp.json, Kname))

(* C11: in an img2img request no graph is built and no POST /prompt issued *)
(* while the upload is outstanding; once it has answered with an assigned  *)
(* name, the POST /prompt follows the POST /upload/image and the graph it  *)
(* carries has that name in the image input of node "17", which is then    *)
(* not the caller's filename unless the backend kept it. *)
C11_AssignedName ==
    \A r \in DOMAIN pc :
        /\ pc[r] = "upload" =>
              /\ ~Built(r)
              /\ Ops(r) = <<"POST /upload/image">>
        /\ (args[r].endpoint = "img2img" /\ Count(r, "POST /prompt") > 0) =>
              /\ Ops(r)[1] = "POST /upload/image"
              /\ Ops(r)[2] = "POST /prompt"
              /\ Count(r, "POST /upload/image") = 1
              /\ NodeInput(Submitted(r), K17, Kimage) = NodeInput(Graph(r), K17, Kimage)
        /\ (args[r].endpoint = "img2img" /\ pc[r] = "submit" /\ Assigned(resp[r])) =>
              /\ loc[r].uploaded_filename = Lookup(resp[r].json, Kname)
              /\ NodeInput(Submitted(r), K17, Kimage) = Lookup(resp[r].json, Kname)
              /\ Lookup(resp[r].json, Kname) # Str(args[r].image.filename.str) =>
                    NodeInput(Submitted(r), K17, Kimage) # Str(args[r].image.filename.str)

C11_Witness ==
    \E r \in DOMAIN pc :
        /\ args[r].endpoint = "img2img"
        /\ pc[r] = "submit"
        /\ args[r].image.filename = Str(RingPng)
        /\ Assigned(resp[r])
        /\ NodeInput(Submitted(r), K17, Kimage) = Str(<<"ring_00012.png">>)
        /\ NodeInput(json_dumps(heap, WORKFLOW_TEMPLATE), K17, Kimage) # Str(<<"ring_00012.png">>)

----------------------------------------------------------------------------
(* the graph build_workflow makes of request r's own prompt, system prompt *)
(* and uploaded file name, with no other request about, is g *)
OwnGraph(r, g) ==
    \E h0 \in {json_loads(file, WORKFLOW_TEMPLATE)} :
        \E b \in {build_workflow(h0, args[r].prompt, loc[r].uploaded_filename,
                                 args[r].system_prompt)} :
            g = json_dumps(b.heap, b.wf)

(* the cells of request r's graph *)
GraphCells(r) == IF Built(r) THEN Reach(heap, {loc[r].wf}) ELSE {}

(* everything request r holds *)
Slot(r) == <<pc[r], args[r], loc[r], calls[r], resp[r], reply[r]>>

(* request r's state is its own: its graph, client id, job handle and      *)
(* image descriptor come from its own arguments and the answers to its own *)
(* calls, and its graph shares no dict with the template or another graph *)
C12_Own(r) ==
    /\ Built(r) =>
          /\ OwnGraph(r, Graph(r))
          /\ GraphCells(r) \cap Reach(heap, {WORKFLOW_TEMPLATE}) = {}
          /\ \A q \in DOMAIN pc \ {r} :
                /\ GraphCells(r) \cap GraphCells(q) = {}
                /\ loc[r].client_id # loc[q].client_id
    /\ Count(r, "POST /prompt") > 0 =>
          LET i == CHOOSE i \in 1..Len(calls[r]) : calls[r][i].op = "POST /prompt"
          IN  calls[r][i].json = << Entry(<<"prompt">>, [obj |-> Graph(r)]),
                                    Entry(<<"client_id">>, loc[r].client_id) >>
    /\ (args[r].endpoint = "img2img" /\ pc[r] = "submit") =>
          loc[r].uploaded_filename = UploadedName(resp[r].json, args[r].image.filename.str)
    /\ (pc[r] = "history" /\ Count(r, "GET /history") = 1) =>
          loc[r].prompt_id = Lookup(resp[r].json, Kprompt_id)
    /\ \A i \in 1..Len(calls[r]) :
          calls[r][i].op = "GET /history" => calls[r][i].prompt_id = loc[r].prompt_id
    /\ pc[r] = "view" =>
          /\ loc[r].meta = [obj |-> Tick(resp[r], loc[r].prompt_id.str).meta]
          /\ calls[r][Len(calls[r])].params = ViewParams(loc[r].meta.obj)

(* a step is the step of one request, and leaves what the others hold *)
C12_Step ==
    \A r, q \in DOMAIN pc : (r # q /\ Slot(r)' # Slot(r)) => Slot(q)' = Slot(q)

(* C12: with /txt2img and /img2img requests interleaved at their awaits,   *)
(* WORKFLOW_TEMPLATE is in every state what was loaded at start-up; the    *)
(* graph, client id, job handle and image descriptor a request uses are    *)
(* those made from its own inputs and the answers to its own calls; and no *)
(* step of one request changes anything another request holds. *)
C12_Isolation ==
    /\ [](json_dumps(heap, WORKFLOW_TEMPLATE) = file /\ \A r \in DOMAIN pc : C12_Own(r))
    /\ [][C12_Step]_vars

C12_Witness ==
    \E r, q \in DOMAIN pc :
        /\ r # q
        /\ args[r].endpoint = "txt2img" /\ args[q].endpoint = "img2img"
        /\ pc[r] = "view" /\ pc[q] = "view"
        /\ args[r].prompt # args[q].prompt
        /\ loc[r].prompt_id # loc[q].prompt_id
        /\ loc[r].meta # loc[q].meta
        /\ Graph(r) # Graph(q)

----------------------------------------------------------------------------
(* a status answer of the three kinds: not 200, an empty body, a body      *)
(* without the handle *)
NoNews(rsp, handle) ==
    \/ rsp.status # 200
    \/ rsp.json = <<>>
    \/ ~HasKey(rsp.json, handle)

(* request r receives, in this step, the answer to its status GET *)
StatusAnswered(r) == pc[r] = "history" /\ pc'[r] # "history"

(* C13: a status answer that is not 200, has an empty body or has no entry *)
(* for the handle leaves the poll going: the tick takes one sleep of one   *)
(* second, with no response to the caller and no descriptor, and when the  *)
(* sleep is over the next status GET for the same handle is issued unless  *)
(* the ticks are used up, in which case, and only then, the timeout is     *)
(* answered. *)
C13_NotReady ==
    [][\A r \in DOMAIN pc :
          /\ (StatusAnswered(r) /\ NoNews(resp'[r], loc[r].prompt_id.str)) =>
                /\ pc'[r] = "sleep"
                /\ calls'[r] = Append(calls[r], [op |-> "sleep", seconds |-> 1])
                /\ reply'[r] = Pending
                /\ loc'[r] = loc[r]
                /\ IsNone(loc[r].meta)
          /\ (pc[r] = "sleep" /\ pc'[r] # "sleep") =>
                /\ loc'[r].tick = loc[r].tick + 1
                /\ IF loc[r].tick + 1 < PollTimeout
                   THEN /\ pc'[r] = "history"
                        /\ calls'[r] = Append(calls[r], [op |-> "GET /history",
                                                         prompt_id |-> loc[r].prompt_id])
                        /\ reply'[r] = Pending
                   ELSE /\ pc'[r] = "done"
                        /\ calls'[r] = calls[r]
                        /\ reply'[r] = HTTPException(502, MsgTimeout)
    ]_vars

C13_Witness ==
    \E r \in DOMAIN pc :
        /\ pc[r] = "history"
        /\ loc[r].tick = 2
        /\ resp[r].status = 200
        /\ resp[r].json # <<>>
        /\ ~HasKey(resp[r].json, loc[r].prompt_id.str)

----------------------------------------------------------------------------
(* the node whose first image is taken: node "9" when it reports an image, *)
(* else the first node of the mapping that reports one *)
ChosenNode(outs) ==
    IF \E i \in ReportingNodes(outs) : outs[i].k = K9
    THEN CHOOSE i \in ReportingNodes(outs) : outs[i].k = K9
    ELSE CHOOSE i \in ReportingNodes(outs) : \A j \in ReportingNodes(outs) : i <= j

(* the image of the status body last received that the descriptor is of *)
ChosenImage(r) ==
    ImagesOf(SnapshotOutputs(r)[ChosenNode(SnapshotOutputs(r))].v.obj)[1].obj

(* the status body holds the handle, and no node of it reports an image *)
HandleWithoutImages(rsp, handle) ==
    /\ rsp.status = 200
    /\ HasKey(rsp.json, handle)
    /\ ~ReportsImage(rsp, handle)

(* C14: a tick ends the poll with a descriptor only on a status body that  *)
(* holds the handle with a non-empty images list in some output node, and  *)
(* on every such body whose chosen image has a filename; the descriptor is *)
(* of the first image of the chosen node: its filename, its subfolder or   *)
(* the empty string, its type or "output".  On a body that holds the       *)
(* handle without any image, node "9" with an empty list included, the     *)
(* tick sleeps and the poll goes on. *)
C14_Found ==
    \A r \in DOMAIN pc :
        /\ pc[r] = "view" =>
              /\ ReportsImage(resp[r], loc[r].prompt_id.str)
              /\ loc[r].meta.obj =
                    << Entry(Kfilename, Lookup(ChosenImage(r), Kfilename)),
                       Entry(Ksubfolder, IF HasKey(ChosenImage(r), Ksubfolder)
                                         THEN Lookup(ChosenImage(r), Ksubfolder)
                                         ELSE Str(<<>>)),
                       Entry(Ktype, IF HasKey(ChosenImage(r), Ktype)
                                    THEN Lookup(ChosenImage(r), Ktype)
                                    ELSE Str(<<"output">>)) >>
        /\ LastOp(r) = "sleep" =>
              /\ ~ReportsImage(resp[r], loc[r].prompt_id.str)
              /\ IsNone(loc[r].meta)
              /\ Count(r, "GET /view") = 0
        /\ (pc[r] = "done" /\ LastOp(r) = "GET /history") =>
              /\ ReportsImage(resp[r], loc[r].prompt_id.str)
              /\ ~HasKey(ChosenImage(r), Kfilename)
        /\ (pc[r] \in {"sleep", "history"} /\ resp[r].status = 200 /\ Count(r, "sleep") > 0
              /\ HandleWithoutImages(resp[r], loc[r].prompt_id.str)) =>
              /\ reply[r] = Pending
              /\ LastOp(r) = "sleep" => calls[r][Len(calls[r])].seconds = 1

C14_Witness ==
    \E r \in DOMAIN pc :
        /\ pc[r] = "view"
        /\ Len(SnapshotOutputs(r)) = 2
        /\ SnapshotOutputs(r)[1].k = K9
        /\ ImagesOf(SnapshotOutputs(r)[1].v.obj) = <<>>
        /\ HasKey(SnapshotOutputs(r)[1].v.obj, Kimages)
        /\ ~HasKey(ChosenImage(r), Ktype)
        /\ loc[r].meta.obj = << Entry(Kfilename, Str(<<"out002.png">>)),
                                Entry(Ksubfolder, Str(<<>>)),
                                Entry(Ktype, Str(<<"output">>)) >>
        /\ loc[r].tick = 1

----------------------------------------------------------------------------
(* the handles request r has polled *)
PolledHandles(r) ==
    {calls[r][i].prompt_id : i \in {j \in 1..Len(calls[r]) : calls[r][j].op = "GET /history"}}

(* what holds of the calls of request r in every state *)
C15_State(r) ==
    /\ Count(r, "POST /upload/image") <= 1
    /\ args[r].endpoint = "txt2img" => Count(r, "POST /upload/image") = 0
    /\ Count(r, "POST /prompt") <= 1
    /\ Count(r, "GET /history") <= PollTimeout
    /\ Cardinality(PolledHandles(r)) <= 1
    /\ Count(r, "GET /view") <= 1
    /\ TimedOut(r) =>
          /\ Count(r, "GET /history") = PollTimeout
          /\ Count(r, "sleep") = PollTimeout
          /\ LastOp(r) = "sleep"
    /\ (pc[r] = "done" /\ LastOp(r) = "POST /prompt") =>
          /\ resp[r].status # 200 \/ reply[r] = ServerError
          /\ Count(r, "GET /history") = 0

(* once request r has its response, it issues no call: the next thing its  *)
(* slot does is to take a new request *)
C15_Step(r) ==
    pc[r] = "done" =>
        \/ calls'[r] = calls[r] /\ pc'[r] = "done" /\ reply'[r] = reply[r]
        \/ calls'[r] = <<>> /\ pc'[r] = "idle"

(* C15: a request issues at most one POST /upload/image (none in txt2img), *)
(* at most one POST /prompt, at most PollTimeout GET /history, all for one *)
(* handle, and at most one GET /view; a poll that timed out made exactly   *)
(* PollTimeout status GETs and is followed by no call, and a submission    *)
(* that failed is followed by no second submission and by no other call. *)
C15_NoRepeat ==
    /\ [](\A r \in DOMAIN pc : C15_State(r))
    /\ [][\A r \in DOMAIN pc : C15_Step(r)]_vars

C15_Witness ==
    \E r \in DOMAIN pc :
        /\ args[r].endpoint = "img2img"
        /\ TimedOut(r)
        /\ Count(r, "POST /upload/image") = 1
        /\ Count(r, "POST /prompt") = 1
        /\ Count(r, "GET /history") = PollTimeout

----------------------------------------------------------------------------
(* request r is at an await *)
InFlight(r) == pc[r] \in {"upload", "submit", "history", "sleep", "view"}

(* the backend's last answer was a 200 without the field the code indexes: *)
(* no "prompt_id" in the answer to the submission, no "filename" in the    *)
(* image of the status body *)
Malformed(r) ==
    /\ ~IsNone(resp[r])
    /\ resp[r].status = 200
    /\ \/ LastOp(r) = "POST /prompt" /\ ~HasKey(resp[r].json, Kprompt_id)
       \/ /\ LastOp(r) = "GET /history"
          /\ ReportsImage(resp[r], loc[r].prompt_id.str)
          /\ ~HasKey(ChosenImage(r), Kfilename)

(* the response of request r, once it has one *)
C16_Outcome(r) ==
    /\ pc[r] = "done" <=> reply[r] # Pending
    /\ (pc[r] = "done" /\ ~Malformed(r)) => reply[r].status \in {200, 400, 502}
    /\ pc[r] = "done" => (reply[r].status = 500 <=> Malformed(r))
    /\ reply[r].status = 400 => calls[r] = <<>>
    /\ pc[r] \in {"history", "sleep"} => loc[r].tick < PollTimeout

(* the response is given once: it stays until the slot takes a new request *)
C16_Once(r) ==
    reply[r] # Pending => (reply'[r] = reply[r] \/ (reply'[r] = Pending /\ pc'[r] = "idle"))

(* C16: when every backend call returns and every sleep ends, a request    *)
(* that has started gets its response, whatever the backend answers, and   *)
(* a poll does not go on for ever; the response is one, it does not change *)
(* afterwards, and it is a 200 with the image, a 400 or a 502, unless the  *)
(* backend's 200 lacked the field the code indexes. *)
C16_Terminates ==
    /\ [](\A r \in DOMAIN pc : C16_Outcome(r))
    /\ [][\A r \in DOMAIN pc : C16_Once(r)]_vars
    /\ \A r \in {"r1"} : (InFlight(r) ~> pc[r] = "done")
    /\ \A r \in {"r1"} : (pc[r] \in {"history", "sleep"} ~> pc[r] \notin {"history", "sleep"})

C16_Witness ==
    \E r \in DOMAIN pc :
        /\ pc[r] = "done"
        /\ TimedOut(r)
        /\ resp[r].status = 200
        /\ HandleWithoutImages(resp[r], loc[r].prompt_id.str)
        /\ loc[r].tick = PollTimeout
====
